---------------------------- MODULE Spec2Model ----------------------------
(* Model of src/exmapacidade.py: encontrar_melhor_rota, a breadth-first    *)
(* search for the best route on a city map given as a rectangular grid of  *)
(* characters ('#' blocked, ' ' free, 'E' start, 'S' goal).                *)
(* Coordinates are 0-indexed pairs <<r, c>> as in the source; a grid is a  *)
(* sequence of rows, so the source's mapa[r][c] is mapa[r + 1][c + 1].     *)
EXTENDS Integers, Sequences, FiniteSets, TLC

VARIABLES
    mapa,                        \* the grid handed to encontrar_melhor_rota
    pc,                          \* position in encontrar_melhor_rota
    partida,                     \* coordinate of 'E', or None
    destino,                     \* coordinate of 'S', or None
    fila,                        \* deque of <<r, c, rota>>
    visitados,                   \* set of coordinates
    rota_ideal,                  \* None or the path found
    todos_segmentos_explorados,  \* every dequeued path, in dequeue order
    exploration_snapshots,       \* list of copies of visitados
    step_counter,                \* number of dequeues so far
    retorno,                     \* the returned 4-tuple, or None before return
    pc_driver,                   \* position in the module-level driver
    i_snapshot,                  \* the index i of the driver's enumerate loop
    celulas_visitadas_final,     \* the driver's argument for the final map
    saida                        \* what the program has printed and plotted

vars == <<mapa, pc, partida, destino, fila, visitados, rota_ideal,
          todos_segmentos_explorados, exploration_snapshots, step_counter,
          retorno, pc_driver, i_snapshot, celulas_visitadas_final, saida>>

(* The variables of the module-level driver. *)
vars_driver == <<pc_driver, i_snapshot, celulas_visitadas_final, saida>>

-----------------------------------------------------------------------------
(* Bounds of the model: grids of R x C cells, R, C <= MaxDim, R*C <= MaxCells *)
MaxDim == 3
MaxCells == 9

(* Python's None.  Coordinates are pairs and paths hold at least the start *)
(* coordinate, so the empty tuple is free to stand for None; like None it  *)
(* is falsy in Python's truth tests.                                       *)
None == << >>

Falsy(x) == x = None

(* The four markers of a map (lines 19-22). *)
Marcadores == {" ", "#", "E", "S"}

Ocorrencias(m, ch) ==
    Cardinality({p \in (1..Len(m)) \X (1..Len(m[1])) : m[p[1]][p[2]] = ch})

(* The input grids: rectangular, non-empty, with at most one 'E' and at    *)
(* most one 'S'.                                                           *)
Mapas ==
    UNION { { m \in [1..R -> [1..C -> Marcadores]] :
                Ocorrencias(m, "E") <= 1 /\ Ocorrencias(m, "S") <= 1 } :
            <<R, C>> \in { d \in (1..MaxDim) \X (1..MaxDim) :
                             d[1] * d[2] <= MaxCells } }

linhas(m) == Len(m)
colunas(m) == Len(m[1])

-----------------------------------------------------------------------------
(* Lines 48-55: row-major scan for 'E' and 'S'; a later match overwrites   *)
(* an earlier one.  k is the row-major index of the next cell; pd is       *)
(* <<partida, destino>> so far.                                            *)
RECURSIVE Varredura(_, _, _)
Varredura(m, k, pd) ==
    IF k >= linhas(m) * colunas(m) THEN pd
    ELSE LET r == k \div colunas(m)
             c == k % colunas(m)
         IN  IF m[r + 1][c + 1] = "E"
             THEN Varredura(m, k + 1, << <<r, c>>, pd[2] >>)
             ELSE IF m[r + 1][c + 1] = "S"
                  THEN Varredura(m, k + 1, << pd[1], <<r, c>> >>)
                  ELSE Varredura(m, k + 1, pd)

Localizar(m) == Varredura(m, 0, <<None, None>>)

(* Line 57: if not partida or not destino *)
MarcadorAusenteSoPartida(p, d) == Falsy(p)
MarcadorAusente(p, d) == Falsy(p) \/ Falsy(d)

(* Line 59: return None, [], mapa, [] *)
RetornoErro(m) == <<None, << >>, m, << >> >>

(* Line 72 *)
snapshot_interval == 5

(* Line 94: direcoes = [(-1, 0), (1, 0), (0, -1), (0, 1)] *)
direcoesComDiagonal == << <<-1, 0>>, <<1, 0>>, <<0, -1>>, <<1, 1>> >>
direcoesSemLeste == << <<-1, 0>>, <<1, 0>>, <<0, -1>>, <<0, -1>> >>
direcoes == << <<-1, 0>>, <<1, 0>>, <<0, -1>>, <<0, 1>> >>

(* Lines 99-100: the new position is inside the map and not a blockage. *)
PosicaoValidaSemBloqueio(m, r, c) ==
    /\ 0 <= r /\ r < linhas(m)
    /\ 0 <= c /\ c < colunas(m)
PosicaoValida(m, r, c) ==
    /\ 0 <= r /\ r < linhas(m)
    /\ 0 <= c /\ c < colunas(m)
    /\ m[r + 1][c + 1] # "#"

(* Line 77: fila.popleft() -- the entry taken and the deque left. *)
pop(f) == << f[Len(f)], SubSeq(f, 1, Len(f) - 1) >>
popleft(f) == << Head(f), Tail(f) >>

(* Lines 104-105: nova_rota = list(rota_atual); nova_rota.append(...) *)
NovaRotaDoInicio(rota, p) == << rota[1], p >>
NovaRota(rota, p) == Append(rota, p)

(* Line 82: the condition for a periodic or goal-arrival snapshot. *)
DeveCapturarSoIntervalo(n, atual, d) == n % snapshot_interval = 0
DeveCapturar(n, atual, d) == n % snapshot_interval = 0 \/ atual = d

(* Line 83: exploration_snapshots.append(set(visitados)) *)
CapturarNaFrente(snaps, vis) == <<vis>> \o snaps
Capturar(snaps, vis) == Append(snaps, vis)

(* Lines 89-90: the final capture, skipped when an equal set is present. *)
CapturaFinalSemTeste(snaps, vis) == Append(snaps, vis)
CapturaFinal(snaps, vis) ==
    IF \A i \in 1..Len(snaps) : snaps[i] # vis
    THEN Append(snaps, vis)
    ELSE snaps

(* Line 87: (r_atual, c_atual) == destino *)
ChegouTrocado(r, c, d) == <<c, r>> = d
Chegou(r, c, d) == <<r, c>> = d

(* Line 101: (r_novo, c_novo) not in visitados *)
SempreNaoVisitado(p, vis) == TRUE
NaoVisitado(p, vis) == p \notin vis

(* Line 106: fila.append(...) *)
appendleft(f, e) == <<e>> \o f
append(f, e) == Append(f, e)

(* Lines 95-106: the loop over direcoes, from direction i on; st carries   *)
(* visitados and fila as updated by the earlier directions.                *)
RECURSIVE ExplorarVizinhos(_, _, _, _, _, _)
ExplorarVizinhos(m, i, r, c, rota, st) ==
    IF i > Len(direcoes) THEN st
    ELSE LET r_novo == r + direcoes[i][1]
             c_novo == c + direcoes[i][2]
         IN  IF /\ PosicaoValida(m, r_novo, c_novo)
                /\ NaoVisitado(<<r_novo, c_novo>>, st.visitados)
             THEN ExplorarVizinhos(m, i + 1, r, c, rota,
                    [visitados |-> st.visitados \cup {<<r_novo, c_novo>>},
                     fila |-> append(st.fila,
                                <<r_novo, c_novo,
                                  NovaRota(rota, <<r_novo, c_novo>>)>>)])
             ELSE ExplorarVizinhos(m, i + 1, r, c, rota, st)

(* Lines 112-120: a segment is discarded when it has a point outside the   *)
(* ideal route and is not the ideal route itself.                          *)
SegmentoErradoSoDiferente(seg, ideal) == seg # ideal
SegmentoErradoTodosFora(seg, ideal) ==
    /\ \A i \in 1..Len(seg) : \A j \in 1..Len(ideal) : seg[i] # ideal[j]
    /\ seg # ideal
SegmentoErrado(seg, ideal) ==
    /\ \E i \in 1..Len(seg) : \A j \in 1..Len(ideal) : seg[i] # ideal[j]
    /\ seg # ideal

(* Line 122: len(path) > 1 *)
TemPassoOuInicio(path) == Len(path) >= 1
TemPasso(path) == Len(path) > 1

RECURSIVE Filtrar(_, _)
Filtrar(segs, ideal) ==
    IF segs = << >> THEN << >>
    ELSE LET resto == Filtrar(Tail(segs), ideal)
             manter == IF Falsy(ideal) THEN TemPasso(Head(segs))
                       ELSE SegmentoErrado(Head(segs), ideal)
         IN  IF manter THEN <<Head(segs)>> \o resto ELSE resto

(* Lines 108-122 *)
RotasDescartadas(segs, ideal) == Filtrar(segs, ideal)

-----------------------------------------------------------------------------
(* The classification matrices of the two plotting functions.  A matrix is *)
(* a sequence of rows of codes, indexed like the grid.                     *)

(* Truth test of a set: an empty set is falsy (lines 205, 275). *)
ConjuntoVazio(s) == s = {}

EstaNaRota(p, rota) == \E k \in 1..Len(rota) : rota[k] = p

(* Lines 136-150: plotar_mapa_snapshot's matrix. *)
MatrizSnapshot(m, visited_cells, pd) ==
    [r \in 1..linhas(m) |-> [c \in 1..colunas(m) |->
        IF m[r][c] = "#" THEN 1
        ELSE IF <<r - 1, c - 1>> = pd[1] THEN 2
        ELSE IF <<r - 1, c - 1>> = pd[2] THEN 3
        ELSE IF <<r - 1, c - 1>> \in visited_cells THEN 4
        ELSE 0]]

(* Lines 191-202: the matrix of the markers alone. *)
MatrizDosMarcadores(m) ==
    [r \in 1..linhas(m) |-> [c \in 1..colunas(m) |->
        IF m[r][c] = "#" THEN 1
        ELSE IF m[r][c] = "E" THEN 2
        ELSE IF m[r][c] = "S" THEN 3
        ELSE 0]]

(* Lines 205-208: the explored cells are painted 5 over free cells. *)
PintarVisitadas(M, final_visited_cells) ==
    IF ConjuntoVazio(final_visited_cells) THEN M
    ELSE [r \in DOMAIN M |-> [c \in DOMAIN M[r] |->
             IF <<r - 1, c - 1>> \in final_visited_cells /\ M[r][c] = 0
             THEN 5 ELSE M[r][c]]]

(* Line 213: the cells the ideal route may paint over. *)
SoSobreLivre(v) == v = 0
PodePintarRota(v) == v = 0 \/ v = 5

(* Lines 210-214: the ideal route is painted 4. *)
PintarRota(M, rota) ==
    IF Falsy(rota) THEN M
    ELSE [r \in DOMAIN M |-> [c \in DOMAIN M[r] |->
             IF EstaNaRota(<<r - 1, c - 1>>, rota) /\ PodePintarRota(M[r][c])
             THEN 4 ELSE M[r][c]]]

(* Lines 191-214: plotar_mapa_final's matrix; rotas_descartadas is a       *)
(* parameter the function never reads.                                     *)
MatrizFinal(m, rota, rotas_descartadas, final_visited_cells) ==
    PintarRota(PintarVisitadas(MatrizDosMarcadores(m), final_visited_cells),
               rota)

(* Line 270: the step title i + 1 of the i-th snapshot (i from 0). *)
TituloSemSomar(i) == i
Titulo(i) == i + 1

(* One entry of the program's output: a printed text or a plotted matrix. *)
Impresso(texto) ==
    [tipo |-> "print", titulo |-> 0, texto |-> texto, matriz |-> << >>]
SnapshotPlotado(titulo, M) ==
    [tipo |-> "snapshot", titulo |-> titulo, texto |-> "", matriz |-> M]
FinalPlotado(M) ==
    [tipo |-> "final", titulo |-> 0, texto |-> "", matriz |-> M]

(* Lines 58 and 278: the two messages. *)
MensagemErro == "Erro: Ponto de partida ou destino nao encontrados no mapa."
MensagemSemRota == "Nao foi possivel encontrar uma rota da partida ao destino."

-----------------------------------------------------------------------------
Init ==
    /\ mapa \in Mapas
    /\ pc = "scan"
    /\ partida = None
    /\ destino = None
    /\ fila = << >>
    /\ visitados = {}
    /\ rota_ideal = None
    /\ todos_segmentos_explorados = << >>
    /\ exploration_snapshots = << >>
    /\ step_counter = 0
    /\ retorno = None
    /\ pc_driver = "snapshots"
    /\ i_snapshot = 0
    /\ celulas_visitadas_final = {}
    /\ saida = << >>

(* Lines 44-59: the scan finds no start or no goal; the error return. *)
ErroMarcador ==
    /\ pc = "scan"
    /\ LET pd == Localizar(mapa)
       IN  /\ MarcadorAusente(pd[1], pd[2])
           /\ partida' = pd[1]
           /\ destino' = pd[2]
    /\ saida' = Append(saida, Impresso(MensagemErro))
    /\ retorno' = RetornoErro(mapa)
    /\ pc' = "returned"
    /\ UNCHANGED <<mapa, fila, visitados, rota_ideal,
                   todos_segmentos_explorados, exploration_snapshots,
                   step_counter, pc_driver, i_snapshot,
                   celulas_visitadas_final>>

(* Lines 44-74: the scan finds both markers; the search state is set up. *)
IniciarBusca ==
    /\ pc = "scan"
    /\ LET pd == Localizar(mapa)
       IN  /\ ~MarcadorAusente(pd[1], pd[2])
           /\ partida' = pd[1]
           /\ destino' = pd[2]
           /\ fila' = << <<pd[1][1], pd[1][2], <<pd[1]>> >> >>
           /\ visitados' = {pd[1]}
    /\ rota_ideal' = None
    /\ todos_segmentos_explorados' = << >>
    /\ exploration_snapshots' = << >>
    /\ step_counter' = 0
    /\ pc' = "loop"
    /\ UNCHANGED <<mapa, retorno, vars_driver>>

(* Lines 76-91: one iteration of the loop that dequeues the goal. *)
ChegarAoDestino ==
    /\ pc = "loop"
    /\ fila # << >>
    /\ LET e == popleft(fila)
           r_atual == e[1][1]
           c_atual == e[1][2]
           rota_atual == e[1][3]
           snaps == IF DeveCapturar(step_counter, <<r_atual, c_atual>>, destino)
                    THEN Capturar(exploration_snapshots, visitados)
                    ELSE exploration_snapshots
       IN  /\ Chegou(r_atual, c_atual, destino)
           /\ fila' = e[2]
           /\ todos_segmentos_explorados' =
                  Append(todos_segmentos_explorados, rota_atual)
           /\ step_counter' = step_counter + 1
           /\ rota_ideal' = rota_atual
           /\ exploration_snapshots' = CapturaFinal(snaps, visitados)
    /\ pc' = "post"
    /\ UNCHANGED <<mapa, partida, destino, visitados, retorno, vars_driver>>

(* Lines 76-106: one iteration of the loop on a cell that is not the goal; *)
(* the loop ends when the deque is left empty.                             *)
Expandir ==
    /\ pc = "loop"
    /\ fila # << >>
    /\ LET e == popleft(fila)
           r_atual == e[1][1]
           c_atual == e[1][2]
           rota_atual == e[1][3]
           st == ExplorarVizinhos(mapa, 1, r_atual, c_atual, rota_atual,
                                  [visitados |-> visitados, fila |-> e[2]])
       IN  /\ ~Chegou(r_atual, c_atual, destino)
           /\ todos_segmentos_explorados' =
                  Append(todos_segmentos_explorados, rota_atual)
           /\ exploration_snapshots' =
                  IF DeveCapturar(step_counter, <<r_atual, c_atual>>, destino)
                  THEN Capturar(exploration_snapshots, visitados)
                  ELSE exploration_snapshots
           /\ step_counter' = step_counter + 1
           /\ visitados' = st.visitados
           /\ fila' = st.fila
           /\ pc' = IF st.fila = << >> THEN "post" ELSE "loop"
    /\ UNCHANGED <<mapa, partida, destino, rota_ideal, retorno, vars_driver>>

(* Lines 108-124: the discarded routes are filtered and the result returned. *)
Retornar ==
    /\ pc = "post"
    /\ retorno' = <<rota_ideal,
                    RotasDescartadas(todos_segmentos_explorados, rota_ideal),
                    mapa, exploration_snapshots>>
    /\ pc' = "returned"
    /\ UNCHANGED <<mapa, partida, destino, fila, visitados, rota_ideal,
                   todos_segmentos_explorados, exploration_snapshots,
                   step_counter, vars_driver>>

(* The variables of encontrar_melhor_rota, which the driver leaves alone. *)
vars_busca == <<mapa, pc, partida, destino, fila, visitados, rota_ideal,
                todos_segmentos_explorados, exploration_snapshots,
                step_counter, retorno>>

(* Lines 269-270: one iteration of the driver's loop over the returned     *)
(* snapshots; partida_destino_coords is the scan of lines 254-263.         *)
PlotarSnapshot ==
    /\ pc = "returned"
    /\ pc_driver = "snapshots"
    /\ i_snapshot < Len(retorno[4])
    /\ saida' = Append(saida,
                   SnapshotPlotado(Titulo(i_snapshot),
                       MatrizSnapshot(retorno[3], retorno[4][i_snapshot + 1],
                                      Localizar(mapa))))
    /\ i_snapshot' = i_snapshot + 1
    /\ UNCHANGED <<vars_busca, pc_driver, celulas_visitadas_final>>

(* Lines 273-275: a route was returned; the last snapshot is taken as the  *)
(* set of cells visited.                                                   *)
PrepararFinal ==
    /\ pc = "returned"
    /\ pc_driver = "snapshots"
    /\ i_snapshot >= Len(retorno[4])
    /\ ~Falsy(retorno[1])
    /\ celulas_visitadas_final' =
          IF retorno[4] # << >> THEN retorno[4][Len(retorno[4])] ELSE {}
    /\ pc_driver' = "final"
    /\ UNCHANGED <<vars_busca, i_snapshot, saida>>

(* Line 276: plotar_mapa_final(mapa_original, rota_ideal,                  *)
(* rotas_descartadas_encontradas, celulas_visitadas_final).                *)
PlotarMapaFinal ==
    /\ pc = "returned"
    /\ pc_driver = "final"
    /\ saida' = Append(saida,
                   FinalPlotado(MatrizFinal(retorno[3], retorno[1], retorno[2],
                                            celulas_visitadas_final)))
    /\ pc_driver' = "fim"
    /\ UNCHANGED <<vars_busca, i_snapshot, celulas_visitadas_final>>

(* Lines 277-278: no route was returned. *)
SemRota ==
    /\ pc = "returned"
    /\ pc_driver = "snapshots"
    /\ i_snapshot >= Len(retorno[4])
    /\ Falsy(retorno[1])
    /\ saida' = Append(saida, Impresso(MensagemSemRota))
    /\ pc_driver' = "fim"
    /\ UNCHANGED <<vars_busca, i_snapshot, celulas_visitadas_final>>

Next ==
    \/ ErroMarcador
    \/ IniciarBusca
    \/ ChegarAoDestino
    \/ Expandir
    \/ Retornar
    \/ PlotarSnapshot
    \/ PrepararFinal
    \/ PlotarMapaFinal
    \/ SemRota

Spec == Init /\ [][Next]_vars

(* The function runs to completion once called: single-threaded,           *)
(* synchronous code whose every enabled step is eventually taken.          *)
FairSpec == Spec /\ WF_vars(Next)

-----------------------------------------------------------------------------
(* plotar_mapa_final on its own: the arguments are drawn from bounded sets *)
(* (any grid of R x C cells with R, C <= MaxDimPlotar and                  *)
(* R*C <= MaxCelulasPlotar, any route of at most MaxRota coordinates of    *)
(* the grid or None, any set of coordinates of the grid) and the call of   *)
(* line 276 is applied to them.                                            *)
MaxDimPlotar == 2
MaxCelulasPlotar == 4
MaxRota == 2

MapasPlotar ==
    UNION { [1..R -> [1..C -> Marcadores]] :
            <<R, C>> \in { d \in (1..MaxDimPlotar) \X (1..MaxDimPlotar) :
                             d[1] * d[2] <= MaxCelulasPlotar } }

CoordenadasDe(m) == (0..(linhas(m) - 1)) \X (0..(colunas(m) - 1))

RotasPlotar(m) == UNION { [1..n -> CoordenadasDe(m)] : n \in 0..MaxRota }

InitPlotar ==
    /\ mapa \in MapasPlotar
    /\ \E rota \in RotasPlotar(mapa) : retorno = <<rota, << >>, mapa, << >> >>
    /\ celulas_visitadas_final \in SUBSET CoordenadasDe(mapa)
    /\ pc = "returned"
    /\ pc_driver = "final"
    /\ partida = None
    /\ destino = None
    /\ fila = << >>
    /\ visitados = {}
    /\ rota_ideal = None
    /\ todos_segmentos_explorados = << >>
    /\ exploration_snapshots = << >>
    /\ step_counter = 0
    /\ i_snapshot = 0
    /\ saida = << >>

NextPlotar == PlotarMapaFinal

SpecPlotar == InitPlotar /\ [][NextPlotar]_vars

-----------------------------------------------------------------------------
(* Reference notions used to state the properties, computed independently  *)
(* of the search above.                                                    *)

Coordenadas(m) == (0..(Len(m) - 1)) \X (0..(Len(m[1]) - 1))

Livres(m) == {p \in Coordenadas(m) : m[p[1] + 1][p[2] + 1] # "#"}

Adjacentes(p, q) ==
    \/ p[1] = q[1] /\ (p[2] - q[2] = 1 \/ q[2] - p[2] = 1)
    \/ p[2] = q[2] /\ (p[1] - q[1] = 1 \/ q[1] - p[1] = 1)

(* Breadth-first distance by level sets: the number of hops from the cells *)
(* of fronteira (at distance d) to alvo, or -1 when alvo is out of reach.  *)
RECURSIVE DistRef(_, _, _, _, _)
DistRef(m, fronteira, vistos, alvo, d) ==
    IF alvo \in fronteira THEN d
    ELSE IF fronteira = {} THEN -1
    ELSE LET prox == {q \in Livres(m) \ vistos :
                        \E p \in fronteira : Adjacentes(p, q)}
         IN  DistRef(m, prox, vistos \cup prox, alvo, d + 1)

Distancia(m, s, g) == DistRef(m, {s}, {s}, g, 0)

PosDe(m, ch) == CHOOSE p \in Coordenadas(m) : m[p[1] + 1][p[2] + 1] = ch

TemMarcadores(m) == Ocorrencias(m, "E") = 1 /\ Ocorrencias(m, "S") = 1

DistanciaDoMapa(m) == Distancia(m, PosDe(m, "E"), PosDe(m, "S"))

Abs(x) == IF x < 0 THEN -x ELSE x

Teto(n, k) == (n + k - 1) \div k

Ultimo(s) == s[Len(s)]

Retornou == pc = "returned"

-----------------------------------------------------------------------------
(* C1: whenever the goal is reachable from the start through non-blocked   *)
(* 4-connected cells, the returned route is not None and its number of     *)
(* hops equals the shortest-path distance of the reference breadth-first   *)
(* computation.                                                            *)
C1_RotaMaisCurta ==
    (Retornou /\ TemMarcadores(mapa) /\ DistanciaDoMapa(mapa) >= 0)
        => /\ retorno[1] # None
           /\ Len(retorno[1]) - 1 = DistanciaDoMapa(mapa)

(* A returned route that had to go round a blockage: longer than the       *)
(* Manhattan distance between start and goal.                              *)
C1_Witness ==
    /\ Retornou /\ TemMarcadores(mapa)
    /\ retorno[1] # None
    /\ Len(retorno[1]) - 1 >
          Abs(partida[1] - destino[1]) + Abs(partida[2] - destino[2])

(* C2: on the 3x3 example grid the returned route is exactly               *)
(* (0,0),(1,0),(2,0),(2,1),(2,2).                                          *)
MapaExemplo == << <<"E", " ", "#">>, <<" ", "#", " ">>, <<" ", " ", "S">> >>

C2_RotaDoExemplo ==
    (Retornou /\ mapa = MapaExemplo)
        => retorno[1] = << <<0, 0>>, <<1, 0>>, <<2, 0>>, <<2, 1>>, <<2, 2>> >>

C2_Witness == Retornou /\ mapa = MapaExemplo /\ Len(retorno[1]) = 5

(* C3: every coordinate of the returned route is inside the grid and is    *)
(* not a blocked cell.                                                     *)
C3_RotaDentroELivre ==
    (Retornou /\ retorno[1] # None)
        => \A i \in 1..Len(retorno[1]) :
              LET p == retorno[1][i]
              IN  /\ 0 <= p[1] /\ p[1] < Len(mapa)
                  /\ 0 <= p[2] /\ p[2] < Len(mapa[1])
                  /\ mapa[p[1] + 1][p[2] + 1] # "#"

(* A returned route of at least three hops on a grid that has a blocked    *)
(* cell next to the start.                                                 *)
C3_Witness ==
    /\ Retornou /\ retorno[1] # None
    /\ Len(retorno[1]) >= 4
    /\ \E q \in Coordenadas(mapa) \ Livres(mapa) : Adjacentes(partida, q)

(* C4: a returned route is a simple 4-connected path from start to goal.   *)
C4_RotaSimples ==
    (Retornou /\ retorno[1] # None)
        => LET rota == retorno[1]
           IN  /\ rota[1] = PosDe(mapa, "E")
               /\ Ultimo(rota) = PosDe(mapa, "S")
               /\ \A i, j \in 1..Len(rota) : i # j => rota[i] # rota[j]
               /\ \A i \in 2..Len(rota) : Adjacentes(rota[i - 1], rota[i])

C4_Witness ==
    /\ Retornou /\ retorno[1] # None
    /\ Len(retorno[1]) >= 5
    /\ \E i \in 2..(Len(retorno[1]) - 1) :
          /\ retorno[1][i - 1][1] # retorno[1][i][1]
          /\ retorno[1][i][2] # retorno[1][i + 1][2]

(* C5: with no 'E' or no 'S' in the grid the function makes no search step *)
(* and returns (None, [], grid, []).                                       *)
C5_MarcadorAusente ==
    ((Ocorrencias(mapa, "E") = 0 \/ Ocorrencias(mapa, "S") = 0) /\ pc # "scan")
        => /\ Retornou
           /\ retorno = << << >>, << >>, mapa, << >> >>
           /\ step_counter = 0
           /\ todos_segmentos_explorados = << >>
           /\ exploration_snapshots = << >>
           /\ fila = << >>
           /\ visitados = {}

(* The error return on a grid whose start exists and has a free neighbour, *)
(* and whose goal is missing.                                              *)
C5_Witness ==
    /\ Retornou
    /\ Ocorrencias(mapa, "E") = 1 /\ Ocorrencias(mapa, "S") = 0
    /\ \E q \in Livres(mapa) : Adjacentes(PosDe(mapa, "E"), q)

(* C6: when both markers exist and the goal is out of reach, the returned  *)
(* route is None and the discarded list is non-empty exactly when the      *)
(* start has an in-bounds non-blocked neighbour.                           *)
C6_DestinoInalcancavel ==
    (Retornou /\ TemMarcadores(mapa) /\ DistanciaDoMapa(mapa) < 0)
        => /\ retorno[1] = None
           /\ (retorno[2] # << >>) <=>
                 (\E q \in Livres(mapa) : Adjacentes(PosDe(mapa, "E"), q))

(* A goal walled off by blocked cells, with a start that can move. *)
C6_Witness ==
    /\ Retornou /\ TemMarcadores(mapa) /\ DistanciaDoMapa(mapa) < 0
    /\ Len(retorno[2]) >= 2
    /\ \A q \in Coordenadas(mapa) :
          Adjacentes(destino, q) => mapa[q[1] + 1][q[2] + 1] = "#"

(* C7: when a route is returned, every discarded segment has a coordinate  *)
(* that is not on the route, and the route is not in the discarded list.   *)
C7_DescartadasForaDaRota ==
    (Retornou /\ retorno[1] # None)
        => \A i \in 1..Len(retorno[2]) :
              /\ \E k \in 1..Len(retorno[2][i]) :
                    \A j \in 1..Len(retorno[1]) :
                        retorno[2][i][k] # retorno[1][j]
              /\ retorno[2][i] # retorno[1]

(* A result with discarded segments and with explored segments that were   *)
(* left out of the discarded list besides the route itself.                *)
C7_Witness ==
    /\ Retornou /\ retorno[1] # None
    /\ Len(retorno[2]) >= 2
    /\ Len(todos_segmentos_explorados) - Len(retorno[2]) >= 3

(* C8: at the end of a search with n dequeues the number of snapshots is   *)
(* ceil(n/5), or ceil(n/5) + 1 and then the goal was dequeued; during the  *)
(* search the count after k dequeues is at most ceil(k/5) + 1.             *)
DestinoDesenfileirado ==
    /\ todos_segmentos_explorados # << >>
    /\ Ultimo(Ultimo(todos_segmentos_explorados)) = destino

C8_ContagemDeSnapshots ==
    /\ Len(exploration_snapshots) <= Teto(step_counter, 5) + 1
    /\ pc = "post" =>
          \/ Len(exploration_snapshots) = Teto(step_counter, 5)
          \/ /\ Len(exploration_snapshots) = Teto(step_counter, 5) + 1
             /\ DestinoDesenfileirado
    /\ Retornou =>
          \/ Len(retorno[4]) = Teto(step_counter, 5)
          \/ /\ Len(retorno[4]) = Teto(step_counter, 5) + 1
             /\ DestinoDesenfileirado

(* Seven dequeues ending at the goal: snapshots at steps 0 and 5 and the   *)
(* goal-arrival one.                                                       *)
C8_Witness ==
    /\ Retornou /\ retorno[1] # None
    /\ step_counter >= 7
    /\ Len(retorno[4]) = Teto(step_counter, 5) + 1

(* C9: the snapshots form a chain under set inclusion, in the list kept    *)
(* during the search and in the one returned, and no step changes a        *)
(* snapshot that was already captured.                                     *)
Cadeia(snaps) == \A i \in 1..(Len(snaps) - 1) : snaps[i] \subseteq snaps[i + 1]

C9_CadeiaDeSnapshots ==
    [][ /\ Cadeia(exploration_snapshots')
        /\ (pc' = "returned") => Cadeia(retorno'[4])
        /\ Len(exploration_snapshots') >= Len(exploration_snapshots)
        /\ \A i \in 1..Len(exploration_snapshots) :
              exploration_snapshots'[i] = exploration_snapshots[i] ]_vars

(* Two snapshots, the later strictly larger, and cells visited after the   *)
(* last capture.                                                           *)
C9_Witness ==
    /\ Len(exploration_snapshots) >= 2
    /\ exploration_snapshots[1] # exploration_snapshots[2]
    /\ visitados # Ultimo(exploration_snapshots)

(* C10: the search terminates; it ends either with the goal dequeued and   *)
(* the route set, or with the deque empty, the goal never dequeued and the *)
(* route None; and it makes at most R*C dequeues.                          *)
DestinoNuncaDesenfileirado ==
    \A i \in 1..Len(todos_segmentos_explorados) :
        Ultimo(todos_segmentos_explorados[i]) # destino

FimDaBusca ==
    /\ step_counter <= Len(mapa) * Len(mapa[1])
    /\ (pc \in {"post", "returned"} /\ TemMarcadores(mapa)) =>
          \/ /\ DestinoDesenfileirado
             /\ rota_ideal = Ultimo(todos_segmentos_explorados)
          \/ /\ DestinoNuncaDesenfileirado
             /\ fila = << >>
             /\ rota_ideal = None

C10_Termina == <>Retornou /\ [][FimDaBusca /\ FimDaBusca']_vars

(* A search that dequeued every cell of a grid of six cells or more. *)
C10_Witness ==
    /\ Retornou
    /\ step_counter = Len(mapa) * Len(mapa[1])
    /\ step_counter >= 6

(* C11: among several shortest paths the returned route is the one of a    *)
(* reference FIFO breadth-first search that expands the neighbours of each *)
(* dequeued cell in the order north, south, east, west.                    *)
OrdemNorteSulLesteOeste == << <<-1, 0>>, <<1, 0>>, <<0, 1>>, <<0, -1>> >>

VizinhosEmOrdem(m, p, vistos, ordem) ==
    SelectSeq([k \in 1..Len(ordem) |-> <<p[1] + ordem[k][1], p[2] + ordem[k][2]>>],
              LAMBDA q : q \in Livres(m) /\ q \notin vistos)

(* q is the FIFO queue of paths; the result is the path with which alvo is *)
(* first dequeued, or None.                                                *)
RECURSIVE BuscaRef(_, _, _, _, _)
BuscaRef(m, q, vistos, alvo, ordem) ==
    IF q = << >> THEN None
    ELSE IF Ultimo(Head(q)) = alvo THEN Head(q)
    ELSE LET novos == VizinhosEmOrdem(m, Ultimo(Head(q)), vistos, ordem)
         IN  BuscaRef(m,
                      Tail(q) \o [k \in 1..Len(novos) |-> Append(Head(q), novos[k])],
                      vistos \cup {novos[k] : k \in 1..Len(novos)},
                      alvo, ordem)

RotaRef(m, ordem) ==
    BuscaRef(m, << <<PosDe(m, "E")>> >>, {PosDe(m, "E")}, PosDe(m, "S"), ordem)

C11_OrdemNorteSulLesteOeste ==
    (Retornou /\ retorno[1] # None)
        => retorno[1] = RotaRef(mapa, OrdemNorteSulLesteOeste)

(* C12: in the matrix of plotar_mapa_final blocked, start and goal cells   *)
(* keep the codes 1, 2 and 3 whatever the route and the visited set hold;  *)
(* a free cell on the route is 4 even when it is also visited; a free cell *)
(* visited and not on the route is 5; every other free cell is 0.          *)
MatrizPlotada == saida[Len(saida)].matriz

FinalFoiPlotado ==
    /\ pc_driver = "fim"
    /\ saida # << >>
    /\ saida[Len(saida)].tipo = "final"

NaRotaRetornada(p) == \E k \in 1..Len(retorno[1]) : retorno[1][k] = p

C12_ClassificacaoFinal ==
    FinalFoiPlotado =>
        \A r \in 1..Len(mapa) : \A c \in 1..Len(mapa[1]) :
            LET p == <<r - 1, c - 1>>
                v == MatrizPlotada[r][c]
            IN  /\ mapa[r][c] = "#" => v = 1
                /\ mapa[r][c] = "E" => v = 2
                /\ mapa[r][c] = "S" => v = 3
                /\ mapa[r][c] = " " =>
                      /\ NaRotaRetornada(p) => v = 4
                      /\ (~NaRotaRetornada(p) /\ p \in celulas_visitadas_final)
                            => v = 5
                      /\ (~NaRotaRetornada(p) /\ p \notin celulas_visitadas_final)
                            => v = 0

(* A final map with a free cell both on the route and visited, a free cell *)
(* visited only, and a start cell that is on the route and visited.        *)
C12_Witness ==
    /\ FinalFoiPlotado
    /\ \E p, q, e \in Coordenadas(mapa) :
          /\ mapa[p[1] + 1][p[2] + 1] = " "
          /\ NaRotaRetornada(p) /\ p \in celulas_visitadas_final
          /\ mapa[q[1] + 1][q[2] + 1] = " "
          /\ ~NaRotaRetornada(q) /\ q \in celulas_visitadas_final
          /\ mapa[e[1] + 1][e[2] + 1] = "E"
          /\ NaRotaRetornada(e) /\ e \in celulas_visitadas_final

(* C13: in a run that finds a route, a free cell is classified 5 in the   *)
(* final matrix if and only if it lies on at least one segment of the      *)
(* returned discarded list and not on the route.                           *)
NumaRotaDescartada(p) ==
    \E i \in 1..Len(retorno[2]) : \E k \in 1..Len(retorno[2][i]) :
        retorno[2][i][k] = p

C13_DescartadasNoMapaFinal ==
    FinalFoiPlotado =>
        \A p \in Coordenadas(mapa) :
            mapa[p[1] + 1][p[2] + 1] = " " =>
                (MatrizPlotada[p[1] + 1][p[2] + 1] = 5
                    <=> (NumaRotaDescartada(p) /\ ~NaRotaRetornada(p)))

(* C14: each coordinate is enqueued at most once: the visited set only    *)
(* grows, it is at every step the set of the coordinates ever enqueued     *)
(* (those dequeued so far and those in the deque), and the coordinates in  *)
(* the deque are pairwise distinct members of the visited set.             *)
CoordenadasNaFila(f) == [k \in 1..Len(f) |-> <<f[k][1], f[k][2]>>]

JaEnfileiradas(segs, f) ==
    [k \in 1..Len(segs) |-> Ultimo(segs[k])] \o CoordenadasNaFila(f)

SemRepeticao(q) == \A a, b \in 1..Len(q) : a # b => q[a] # q[b]

Elementos(q) == {q[k] : k \in 1..Len(q)}

C14_EnfileiradaUmaVez ==
    [][ /\ visitados \subseteq visitados'
        /\ SemRepeticao(JaEnfileiradas(todos_segmentos_explorados', fila'))
        /\ visitados' =
              Elementos(JaEnfileiradas(todos_segmentos_explorados', fila'))
        /\ SemRepeticao(CoordenadasNaFila(fila'))
        /\ Elementos(CoordenadasNaFila(fila')) \subseteq visitados' ]_vars

(* A search in progress with several cells waiting, where the cell just    *)
(* expanded had a free neighbour that was already visited.                 *)
C14_Witness ==
    /\ pc = "loop"
    /\ Len(fila) >= 2
    /\ step_counter >= 3
    /\ \E q \in Elementos(CoordenadasNaFila(fila)) :
          Cardinality({k \in 1..Len(todos_segmentos_explorados) :
                          Adjacentes(Ultimo(todos_segmentos_explorados[k]), q)}) >= 2

(* C15: paths are dequeued in non-decreasing order of length, and the hop *)
(* count of every dequeued path is the shortest-path distance from the     *)
(* start to the path's last cell.                                          *)
C15_OrdemPorDistancia ==
    /\ \A i, j \in 1..Len(todos_segmentos_explorados) :
          i < j => Len(todos_segmentos_explorados[i])
                      <= Len(todos_segmentos_explorados[j])
    /\ \A i \in 1..Len(todos_segmentos_explorados) :
          Len(todos_segmentos_explorados[i]) - 1 =
              Distancia(mapa, partida, Ultimo(todos_segmentos_explorados[i]))

(* Dequeues of equal and of growing distance, one of them to a cell that   *)
(* is farther from the start than its Manhattan distance.                  *)
C15_Witness ==
    /\ Len(todos_segmentos_explorados) >= 5
    /\ \E i \in 1..(Len(todos_segmentos_explorados) - 1) :
          Len(todos_segmentos_explorados[i]) =
              Len(todos_segmentos_explorados[i + 1])
    /\ \E i \in 1..Len(todos_segmentos_explorados) :
          LET q == Ultimo(todos_segmentos_explorados[i])
          IN  Len(todos_segmentos_explorados[i]) - 1 >
                  Abs(partida[1] - q[1]) + Abs(partida[2] - q[2])

(* C16: when a route is found, an explored segment is in the returned     *)
(* discarded list if and only if it is not a prefix of the route; the      *)
(* explored segments left out are exactly the non-empty prefixes of the    *)
(* route, the route included.                                              *)
EhPrefixo(seg, rota) ==
    Len(seg) <= Len(rota) /\ SubSeq(rota, 1, Len(seg)) = seg

C16_DescartadasNaoPrefixos ==
    (Retornou /\ retorno[1] # None) =>
        /\ Elementos(retorno[2]) \subseteq Elementos(todos_segmentos_explorados)
        /\ \A k \in 1..Len(todos_segmentos_explorados) :
              (todos_segmentos_explorados[k] \in Elementos(retorno[2]))
                  <=> ~EhPrefixo(todos_segmentos_explorados[k], retorno[1])
        /\ Elementos(todos_segmentos_explorados) \ Elementos(retorno[2]) =
              {SubSeq(retorno[1], 1, n) : n \in 1..Len(retorno[1])}

(* A route of three hops or more with a discarded segment that follows the *)
(* route for a hop and then leaves it.                                     *)
C16_Witness ==
    /\ Retornou /\ retorno[1] # None
    /\ Len(retorno[1]) >= 4
    /\ \E i \in 1..Len(retorno[2]) :
          /\ Len(retorno[2][i]) >= 3
          /\ retorno[2][i][2] = retorno[1][2]

(* C17: the iteration that dequeues the goal appends exactly one snapshot, *)
(* the last snapshot of the returned list is the whole visited set at the  *)
(* moment the search stops, and the final map is painted from it.          *)
DesenfileiraDestino ==
    /\ Len(todos_segmentos_explorados') = Len(todos_segmentos_explorados) + 1
    /\ Ultimo(Ultimo(todos_segmentos_explorados')) = destino

C17_SnapshotFinal ==
    [][ /\ DesenfileiraDestino =>
              /\ Len(exploration_snapshots') = Len(exploration_snapshots) + 1
              /\ Ultimo(exploration_snapshots') = visitados'
        /\ (pc' = "returned" /\ retorno'[1] # None) =>
              /\ retorno'[4] # << >>
              /\ Ultimo(retorno'[4]) = visitados'
        /\ pc_driver' = "final" => celulas_visitadas_final' = visitados' ]_vars

(* A final map about to be painted after a search whose goal was dequeued  *)
(* at a step that is not a multiple of 5, after an earlier periodic        *)
(* snapshot.                                                               *)
C17_Witness ==
    /\ pc_driver = "final"
    /\ Len(retorno[4]) >= 3
    /\ celulas_visitadas_final # {}

(* C18: the snapshots are rendered one by one in capture order with the   *)
(* titles 1, 2, 3, ..., all before any final map; the run ends, and at its *)
(* end the final map has been rendered if and only if a route was          *)
(* returned; when none was returned the program has reported that no route *)
(* was found and never renders the final map.                              *)
Plotados(tipo) == {k \in 1..Len(saida) : saida[k].tipo = tipo}

Mensagens == {saida[k].texto : k \in Plotados("print")}

(* The entries of saida of one kind, in order. *)
Apenas(tipo) == SelectSeq(saida, LAMBDA ev : ev.tipo = tipo)

MostraSnapshot(M, snap) ==
    \A p \in Coordenadas(mapa) :
        M[p[1] + 1][p[2] + 1] = 4 <=>
            (p \in snap /\ mapa[p[1] + 1][p[2] + 1] = " ")

OrdemDaSaida ==
    /\ \A k \in 1..Len(Apenas("snapshot")) :
          /\ Apenas("snapshot")[k].titulo = k
          /\ k <= Len(retorno[4])
          /\ MostraSnapshot(Apenas("snapshot")[k].matriz, retorno[4][k])
    /\ \A a \in Plotados("final") : \A b \in Plotados("snapshot") : b < a
    /\ Plotados("final") # {} =>
          /\ retorno[1] # None
          /\ Len(Apenas("snapshot")) = Len(retorno[4])
          /\ Cardinality(Plotados("final")) = 1
    /\ pc_driver = "fim" =>
          /\ Len(Apenas("snapshot")) = Len(retorno[4])
          /\ (Plotados("final") # {}) <=> (retorno[1] # None)
          /\ retorno[1] = None =>
                "Nao foi possivel encontrar uma rota da partida ao destino."
                    \in Mensagens

C18_OrdemDaSaida ==
    /\ <>(pc_driver = "fim")
    /\ [][OrdemDaSaida /\ OrdemDaSaida']_vars

(* A finished run that rendered three snapshots and then the final map. *)
C18_Witness ==
    /\ pc_driver = "fim"
    /\ Len(Apenas("snapshot")) >= 3
    /\ saida[Len(saida)].tipo = "final"

(* C19: every coordinate of the visited set is inside the grid, not       *)
(* blocked and reachable from the start through non-blocked 4-connected    *)
(* cells; when the search ends with the deque empty and the goal never     *)
(* dequeued, the visited set is exactly the set of cells reachable from    *)
(* the start.                                                              *)
RECURSIVE Fecho(_, _)
Fecho(m, S) ==
    LET T == S \cup {q \in Livres(m) : \E p \in S : Adjacentes(p, q)}
    IN  IF T = S THEN S ELSE Fecho(m, T)

Alcancaveis(m) == Fecho(m, {PosDe(m, "E")})

C19_VisitadosAlcancaveis ==
    /\ \A p \in visitados :
          /\ p \in Coordenadas(mapa)
          /\ mapa[p[1] + 1][p[2] + 1] # "#"
          /\ p \in Alcancaveis(mapa)
    /\ (/\ pc \in {"post", "returned"}
        /\ TemMarcadores(mapa)
        /\ DestinoNuncaDesenfileirado)
          => visitados = Alcancaveis(mapa)

(* An exhausted search that visited four cells or more and left a free     *)
(* cell other than the goal unvisited.                                     *)
C19_Witness ==
    /\ pc = "post" /\ rota_ideal = None
    /\ Cardinality(visitados) >= 4
    /\ \E q \in Livres(mapa) \ visitados : q # destino

=============================================================================
